---------------------------- MODULE Spec2Model ----------------------------
(***************************************************************************)
(* dp: pipes the standard output of one process into the standard input    *)
(* of two other processes (src/dp.c).                                      *)
(*                                                                         *)
(* Two state machines share the variables below.                           *)
(*   ParseSpec : main()'s splitting of argv into cmd1, cmd2, cmd3.         *)
(*   Spec      : doublePipe(): the supervisor, the head, the tee (relay)   *)
(*               and the two legs, as five concurrently scheduled          *)
(*               processes over three kernel pipes.                        *)
(*   FairSpec  : Spec with the scheduler's weak fairness per process.      *)
(*                                                                         *)
(* The kernel is modelled by the POSIX contract of the calls the code      *)
(* makes: fork() copies the descriptor table, read() on an empty pipe      *)
(* blocks while a write end is open anywhere and returns 0 otherwise,      *)
(* write() blocks on a full pipe, raises SIGPIPE/EPIPE when no read end is *)
(* open anywhere, and returns the number of bytes it transferred, which    *)
(* may be fewer than requested; exit closes every descriptor.              *)
(***************************************************************************)
EXTENDS Integers, Sequences, FiniteSets, TLC

\* ------------------------------------------------------------------ bounds
MaxBytes == 3       \* bytes the head command writes at most
BlockSize == 2      \* sizeof(buffer) of the tee, scaled down from 1024
PipeCap == 2        \* capacity of a kernel pipe buffer, scaled down
MaxArgs == 12       \* argc - 1 at most (ParseSpec)

\* --------------------------------------------------------- program constants
STDIN_FILENO == 0
STDOUT_FILENO == 1
EXIT_FAILURE == 1
NumPipes == 3       \* close_count passed to closePipes
NumChildren == 4    \* bound of the wait loop
CmdCap == 10        \* char *cmd1[10], cmd2[10], cmd3[10]
KilledBySigpipe == 128 + 13  \* status of a child terminated by SIGPIPE
Segv == 128 + 11    \* status of a process terminated by SIGSEGV
NotExited == 0 - 1  \* no status yet
Tokens == {"w", ":"}    \* an argument is the separator or any other word

Procs == {"sup", "head", "tee", "leg1", "leg2"}
Children == Procs \ {"sup"}
Launched == {"head", "leg1", "leg2"}
Legs == {"leg1", "leg2"}
PipeNames == {"head_to_tee", "tee_to_leg1", "tee_to_leg2"}

\* int pipes_to_close[3][2]: row i is pipe i, column 0 its read end, 1 its write end
pipes_to_close == <<"head_to_tee", "tee_to_leg1", "tee_to_leg2">>
Desc == PipeNames \X {0, 1}
Inherited == <<"inherited", 0>>   \* the stream dp itself was started with
Closed == <<"closed", 0>>

Min(a, b) == IF a < b THEN a ELSE b

VARIABLES
    \* ---- main()
    argv,        \* argv[1..argc-1]
    mpc,         \* position in main()
    i, j,        \* main's loop variables (i indexes argv, 1-based like the code)
    cmd1, cmd2, cmd3,   \* slots written so far: sequences of tokens / "NULL"
    oob,         \* array slots written outside 0..CmdCap-1: set of <<array, index>>
    exitCode,    \* exit status of dp itself, NotExited while running
    \* ---- doublePipe()
    pc,          \* position of each process
    fds,         \* pipe descriptors open in each process
    stdin, stdout,  \* what descriptor 0 / 1 of each process refers to
    ci,          \* closePipes loop index of each process
    made,        \* pipes created so far
    written,     \* every byte ever accepted into each pipe, in order
    nread,       \* bytes consumed from each pipe so far
    buffer,      \* tee: the block of the last read (bytesRead = Len(buffer))
    exitStatus,  \* each child's termination status, NotExited while it runs
    reaped,      \* children whose status wait() has collected, in order
    waits,       \* loop counter of the wait loop
    sigpipeIgnored, \* SIGPIPE disposition dp inherited
    sawEOF,      \* processes whose read returned 0
    ioLog,       \* <<process, pipe, "read"|"write">> ever issued
    badClose     \* <<process, descriptor>>: close() of a descriptor not open there

mainVars == <<argv, mpc, i, j, cmd1, cmd2, cmd3, oob, exitCode>>
procVars == <<pc, fds, stdin, stdout, ci, made, written, nread, buffer,
              exitStatus, reaped, waits, sigpipeIgnored, sawEOF, ioLog, badClose>>
vars == <<argv, mpc, i, j, cmd1, cmd2, cmd3, oob, exitCode,
          pc, fds, stdin, stdout, ci, made, written, nread, buffer,
          exitStatus, reaped, waits, sigpipeIgnored, sawEOF, ioLog, badClose>>


\* ================================================================== kernel
\* Processes holding descriptor d open: in the descriptor table since pipe()
\* or fork(), or as descriptor 0 / 1 after dup2().
Holders(d) == {p \in Procs : d \in fds[p] \/ stdin[p] = d \/ stdout[p] = d}

HasReader(pn) == Holders(<<pn, 0>>) # {}
HasWriter(pn) == Holders(<<pn, 1>>) # {}

\* Bytes sitting in the pipe buffer.
InPipe(pn) == Len(written[pn]) - nread[pn]

\* The counts a write() of n bytes into a pipe with `free` bytes of room may
\* return: at least one byte, at most all of them.
WriteAccepts(n, free) == 1 .. Min(n, free)

\* The counts a read() of at most n bytes may return when avail bytes are buffered.
ReadReturns(n, avail) == 1 .. Min(n, avail)

\* close(d) in process p: the descriptor table after it.
CloseIn(tab, d) == tab \ {d}

\* Process termination of a child: status recorded, every descriptor closed.
ExitChild(p, status) ==
    /\ pc' = [pc EXCEPT ![p] = "exited"]
    /\ exitStatus' = [exitStatus EXCEPT ![p] = status]
    /\ fds' = [fds EXCEPT ![p] = {}]
    /\ stdin' = [stdin EXCEPT ![p] = Closed]
    /\ stdout' = [stdout EXCEPT ![p] = Closed]

\* exit(status) of dp itself (the supervisor).
ExitSup(label, status) ==
    /\ pc' = [pc EXCEPT !["sup"] = label]
    /\ exitCode' = status
    /\ fds' = [fds EXCEPT !["sup"] = {}]
    /\ stdin' = [stdin EXCEPT !["sup"] = Closed]
    /\ stdout' = [stdout EXCEPT !["sup"] = Closed]

\* ============================================================== closePipes
\* closePipes with the second close() missing: only read ends are closed.
ClosePipesReadEndsOnly(p, at, after) ==
    /\ pc[p] = at
    /\ ci[p] < NumPipes
    /\ LET pn == pipes_to_close[ci[p] + 1]
       IN /\ fds' = [fds EXCEPT ![p] = CloseIn(@, <<pn, 0>>)]
          /\ badClose' = badClose \cup {<<p, d>> : d \in {<<pn, 0>>} \ fds[p]}
    /\ IF ci[p] + 1 = NumPipes
       THEN /\ pc' = [pc EXCEPT ![p] = after]
            /\ ci' = [ci EXCEPT ![p] = 0]
       ELSE /\ ci' = [ci EXCEPT ![p] = @ + 1]
            /\ UNCHANGED pc

\* One iteration of closePipes' loop in process p: close(pipes[i][0]);
\* close(pipes[i][1]); i++.  The iteration that ends the loop moves p on.
ClosePipesStep(p, at, after) ==
    /\ pc[p] = at
    /\ ci[p] < NumPipes
    /\ LET pn == pipes_to_close[ci[p] + 1]
           both == {<<pn, 0>>, <<pn, 1>>}
       IN /\ fds' = [fds EXCEPT ![p] = CloseIn(CloseIn(@, <<pn, 0>>), <<pn, 1>>)]
          /\ badClose' = badClose \cup {<<p, d>> : d \in both \ fds[p]}
    /\ IF ci[p] + 1 = NumPipes
       THEN /\ pc' = [pc EXCEPT ![p] = after]
            /\ ci' = [ci EXCEPT ![p] = 0]
       ELSE /\ ci' = [ci EXCEPT ![p] = @ + 1]
            /\ UNCHANGED pc

\* ================================================= createAndExecuteProcess
\* A parent that hands the head the write end of leg1's pipe.
FdToDupLeg1PipeForHead(p) ==
    CASE p = "head" -> <<"tee_to_leg1", 1>>
      [] p = "leg1" -> <<"tee_to_leg1", 0>>
      [] p = "leg2" -> <<"tee_to_leg2", 0>>

\* The arguments of the three calls of createAndExecuteProcess.
FdToDup(p) ==
    CASE p = "head" -> <<"head_to_tee", 1>>
      [] p = "leg1" -> <<"tee_to_leg1", 0>>
      [] p = "leg2" -> <<"tee_to_leg2", 0>>

FdToTarget(p) == IF p = "head" THEN STDOUT_FILENO ELSE STDIN_FILENO

\* fork() succeeded: the child starts at `start` with a copy of the caller's
\* descriptors; the caller goes on to `next`.
ForkOk(at, child, start, next) ==
    /\ pc["sup"] = at
    /\ pc' = [pc EXCEPT !["sup"] = next, ![child] = start]
    /\ fds' = [fds EXCEPT ![child] = fds["sup"]]
    /\ stdin' = [stdin EXCEPT ![child] = stdin["sup"]]
    /\ stdout' = [stdout EXCEPT ![child] = stdout["sup"]]
    /\ UNCHANGED <<mainVars, ci, made, written, nread, buffer, exitStatus, reaped,
                   waits, sigpipeIgnored, sawEOF, ioLog, badClose>>

\* The supervisor's position after the spawn step at `at`.
AfterSpawn(at) ==
    CASE at = "PipesCreated" -> "HeadSpawned"
      [] at = "HeadSpawned" -> "RelaySpawned"
      [] at = "RelaySpawned" -> "Leg1Spawned"
      [] at = "Leg1Spawned" -> "Cleanup"

\* A failed fork() that is reported but not fatal: the caller goes on.
ForkFailGoesOn(at) ==
    /\ pc["sup"] = at
    /\ pc' = [pc EXCEPT !["sup"] = AfterSpawn(at)]
    /\ UNCHANGED <<mainVars, fds, stdin, stdout,
                   ci, made, written, nread, buffer, exitStatus, reaped,
                   waits, sigpipeIgnored, sawEOF, ioLog, badClose>>

\* fork() returned -1: perror(FORK_ERR); exit(EXIT_FAILURE).
ForkFail(at) ==
    /\ pc["sup"] = at
    /\ ExitSup("Failed", EXIT_FAILURE)
    /\ UNCHANGED <<argv, mpc, i, j, cmd1, cmd2, cmd3, oob,
                   ci, made, written, nread, buffer, exitStatus, reaped,
                   waits, sigpipeIgnored, sawEOF, ioLog, badClose>>

\* Child: dup2(fd_to_dup, fd_to_target) succeeded.
ChildDup2Ok(p) ==
    /\ pc[p] = "dup2"
    /\ FdToDup(p) \in fds[p]
    /\ IF FdToTarget(p) = STDOUT_FILENO
       THEN stdout' = [stdout EXCEPT ![p] = FdToDup(p)] /\ UNCHANGED stdin
       ELSE stdin' = [stdin EXCEPT ![p] = FdToDup(p)] /\ UNCHANGED stdout
    /\ pc' = [pc EXCEPT ![p] = "closePipes"]
    /\ UNCHANGED <<mainVars, fds, ci, made, written, nread, buffer, exitStatus,
                   reaped, waits, sigpipeIgnored, sawEOF, ioLog, badClose>>

\* A failing child that exits with status 0.
ChildFailureExitsZero(p) == ExitChild(p, 0)

\* How a launched child ends when dup2 or execvp fails: perror; exit(EXIT_FAILURE).
ChildFailure(p) == ExitChild(p, EXIT_FAILURE)

\* Child: dup2 returned -1.
ChildDup2Fail(p) ==
    /\ pc[p] = "dup2"
    /\ ChildFailure(p)
    /\ UNCHANGED <<mainVars, ci, made, written, nread, buffer,
                   reaped, waits, sigpipeIgnored, sawEOF, ioLog, badClose>>

\* A child branch without the closePipes call.
ChildSkipsClosePipes(p) ==
    /\ pc[p] = "closePipes"
    /\ pc' = [pc EXCEPT ![p] = "exec"]
    /\ UNCHANGED <<mainVars, fds, stdin, stdout, ci, made, written, nread, buffer,
                   exitStatus, reaped, waits, sigpipeIgnored, sawEOF, ioLog, badClose>>

\* Child: closePipes(pipes_to_close, close_count).
ChildClosePipes(p) ==
    /\ ClosePipesStep(p, "closePipes", "exec")
    /\ UNCHANGED <<mainVars, stdin, stdout, made, written, nread, buffer,
                   exitStatus, reaped, waits, sigpipeIgnored, sawEOF, ioLog>>

\* Child: execvp(cmd[0], cmd) replaced the process image.
ChildExecOk(p) ==
    /\ pc[p] = "exec"
    /\ pc' = [pc EXCEPT ![p] = "running"]
    /\ UNCHANGED <<mainVars, fds, stdin, stdout, ci, made, written, nread, buffer,
                   exitStatus, reaped, waits, sigpipeIgnored, sawEOF, ioLog, badClose>>

\* Child: execvp returned -1.
ChildExecFail(p) ==
    /\ pc[p] = "exec"
    /\ ChildFailure(p)
    /\ UNCHANGED <<mainVars, ci, made, written, nread, buffer,
                   reaped, waits, sigpipeIgnored, sawEOF, ioLog, badClose>>


\* ==================================================================== main
argc == Len(argv) + 1

Cmd(k) == CASE k = 1 -> cmd1 [] k = 2 -> cmd2 [] k = 3 -> cmd3

SetCmd(k, v) ==
    /\ cmd1' = IF k = 1 THEN v ELSE cmd1
    /\ cmd2' = IF k = 2 THEN v ELSE cmd2
    /\ cmd3' = IF k = 3 THEN v ELSE cmd3

\* char *cmdk[10]: the slots an assignment cmdk[idx] = ... may touch.
InBounds(idx) == idx >= 0 /\ idx < CmdCap

\* cmdk[idx] = val.  Slots are written in order from 0, so inside the array
\* the write extends the slots written so far.  Outside the array the
\* behaviour is undefined: the write lands on whatever lies behind the array
\* and main goes on, or the process is terminated by the damage.
Store(k, idx, val, onwards) ==
    \/ /\ InBounds(idx)
       /\ SetCmd(k, Append(Cmd(k), val))
       /\ UNCHANGED oob
       /\ onwards
    \/ /\ ~InBounds(idx)
       /\ oob' = oob \cup {<<k, idx>>}
       /\ UNCHANGED <<cmd1, cmd2, cmd3>>
       /\ onwards
    \/ /\ ~InBounds(idx)
       /\ oob' = oob \cup {<<k, idx>>}
       /\ mpc' = "crashed"
       /\ exitCode' = Segv
       /\ UNCHANGED <<cmd1, cmd2, cmd3, i, j>>

\* exit(1) after a usage message.
UsageExit ==
    /\ mpc' = "exited"
    /\ exitCode' = 1

\* if (argc == 1) { printf(Usage); exit(1); }, then the first loop's i = 1, j = 0.
MainStart ==
    /\ mpc = "start"
    /\ IF argc = 1
       THEN UsageExit /\ UNCHANGED <<i, j>>
       ELSE mpc' = "loop1" /\ i' = 1 /\ j' = 0 /\ UNCHANGED exitCode
    /\ UNCHANGED <<argv, cmd1, cmd2, cmd3, oob, procVars>>

\* One test-and-body of the k-th loop:
\*   for (...; i < argc; i++, j++) { if (!strcmp(argv[i], ":")) break; cmdk[j] = argv[i]; }
\* the third loop has no break.
MainLoop(k) ==
    /\ mpc = <<"loop1", "loop2", "loop3">>[k]
    /\ IF i < argc /\ ~(k < 3 /\ argv[i] = ":")
       THEN /\ Store(k, j, argv[i],
                     /\ i' = i + 1
                     /\ j' = j + 1
                     /\ UNCHANGED <<mpc, exitCode>>)
       ELSE /\ mpc' = <<"end1", "end2", "end3">>[k]
            /\ UNCHANGED <<i, j, cmd1, cmd2, cmd3, oob, exitCode>>
    /\ UNCHANGED <<argv, procVars>>

\* cmdk[j] = NULL; if (i == argc) { printf(...); exit(1); } else i++;   (k = 1, 2)
\* followed by the next loop's j = 0.
MainEnd(k) ==
    /\ mpc = <<"end1", "end2">>[k]
    /\ Store(k, j, "NULL",
             IF i = argc
             THEN UsageExit /\ UNCHANGED <<i, j>>
             ELSE /\ i' = i + 1
                  /\ j' = 0
                  /\ mpc' = <<"loop2", "loop3">>[k]
                  /\ UNCHANGED exitCode)
    /\ UNCHANGED <<argv, procVars>>

\* cmd3[j] = NULL; if (j == 0) { printf(...); exit(1); }  exit(doublePipe(...));
MainEnd3 ==
    /\ mpc = "end3"
    /\ Store(3, j, "NULL",
             IF j = 0
             THEN UsageExit /\ UNCHANGED <<i, j>>
             ELSE mpc' = "doublePipe" /\ UNCHANGED <<i, j, exitCode>>)
    /\ UNCHANGED <<argv, procVars>>

\* ============================================================== doublePipe
\* The ends pipe() hands out for the first n pipes.
EndsOf(n) == {<<pipes_to_close[k], e>> : k \in 1 .. n, e \in {0, 1}}

\* Pipe creation whose failure is not checked: the supervisor goes on with the
\* pipes it got.
CreatePipesUnchecked ==
    /\ mpc = "doublePipe"
    /\ pc["sup"] = "Idle"
    /\ \E n \in 0 .. NumPipes :
         /\ made' = {pipes_to_close[k] : k \in 1 .. n}
         /\ pc' = [pc EXCEPT !["sup"] = "PipesCreated"]
         /\ fds' = [fds EXCEPT !["sup"] = EndsOf(n)]
    /\ UNCHANGED <<mainVars, stdin, stdout,
                   ci, written, nread, buffer, exitStatus, reaped,
                   waits, sigpipeIgnored, sawEOF, ioLog, badClose>>

\* pipe(head_to_tee) == -1 || pipe(tee_to_leg1) == -1 || pipe(tee_to_leg2) == -1:
\* the first n calls succeed; with n < 3 the next one fails and the chain stops:
\* perror(PIPE_ERR); exit(EXIT_FAILURE).
CreatePipes ==
    /\ mpc = "doublePipe"
    /\ pc["sup"] = "Idle"
    /\ \E n \in 0 .. NumPipes :
         /\ made' = {pipes_to_close[k] : k \in 1 .. n}
         /\ IF n = NumPipes
            THEN /\ pc' = [pc EXCEPT !["sup"] = "PipesCreated"]
                 /\ fds' = [fds EXCEPT !["sup"] = EndsOf(n)]
                 /\ UNCHANGED <<exitCode, stdin, stdout>>
            ELSE ExitSup("Failed", EXIT_FAILURE)
    /\ UNCHANGED <<argv, mpc, i, j, cmd1, cmd2, cmd3, oob,
                   ci, written, nread, buffer, exitStatus, reaped,
                   waits, sigpipeIgnored, sawEOF, ioLog, badClose>>

\* createAndExecuteProcess(cmd1, head_to_tee[1], STDOUT_FILENO, pipes_to_close, 3)
SpawnHead ==
    \/ ForkOk("PipesCreated", "head", "dup2", "HeadSpawned")
    \/ ForkFail("PipesCreated")

\* int pid_tee = fork()
SpawnTee ==
    \/ ForkOk("HeadSpawned", "tee", "closeUnused", "RelaySpawned")
    \/ ForkFail("HeadSpawned")

\* createAndExecuteProcess(cmd2, tee_to_leg1[0], STDIN_FILENO, pipes_to_close, 3)
SpawnLeg1 ==
    \/ ForkOk("RelaySpawned", "leg1", "dup2", "Leg1Spawned")
    \/ ForkFail("RelaySpawned")

\* A parent that goes from the last spawn straight to the wait loop.
SpawnLeg2ThenWait ==
    \/ ForkOk("Leg1Spawned", "leg2", "dup2", "Reaping")
    \/ ForkFail("Leg1Spawned")

\* createAndExecuteProcess(cmd3, tee_to_leg2[0], STDIN_FILENO, pipes_to_close, 3)
SpawnLeg2 ==
    \/ ForkOk("Leg1Spawned", "leg2", "dup2", "Cleanup")
    \/ ForkFail("Leg1Spawned")

\* closePipes(pipes_to_close, 3) in the parent.
Cleanup ==
    /\ ClosePipesStep("sup", "Cleanup", "Reaping")
    /\ UNCHANGED <<mainVars, stdin, stdout, made, written, nread, buffer,
                   exitStatus, reaped, waits, sigpipeIgnored, sawEOF, ioLog>>

\* Children wait() can return the status of: terminated and not yet collected.
Zombies == {c \in Children : pc[c] = "exited" /\ c \notin reaped}

\* Children wait() would block for: created, still running.
Running == {c \in Children : pc[c] \notin {"none", "exited"}}

\* A wait loop that stops one short.
WaitCountOneShort == NumChildren - 1

\* Number of waits the parent issues: for (int i = 0; i < 4; i++) wait(NULL).
WaitCount == NumChildren

\* One iteration of the wait loop: wait(NULL) returns a terminated child's
\* status (discarded), or -1 at once when the caller has no child left.
Wait ==
    /\ pc["sup"] = "Reaping"
    /\ waits < WaitCount
    /\ \/ \E c \in Zombies : reaped' = reaped \cup {c}
       \/ Zombies = {} /\ Running = {} /\ UNCHANGED reaped
    /\ waits' = waits + 1
    /\ UNCHANGED <<mainVars, pc, fds, stdin, stdout, ci, made, written, nread,
                   buffer, exitStatus, sigpipeIgnored, sawEOF, ioLog, badClose>>

\* A return that hands on the worst status among the reaped children.
ReturnWorstStatus ==
    /\ pc["sup"] = "Reaping"
    /\ waits >= WaitCount
    /\ ExitSup("Done", IF \E c \in reaped : exitStatus[c] # 0 THEN EXIT_FAILURE ELSE 0)
    /\ UNCHANGED <<argv, mpc, i, j, cmd1, cmd2, cmd3, oob,
                   ci, made, written, nread, buffer, exitStatus, reaped,
                   waits, sigpipeIgnored, sawEOF, ioLog, badClose>>

\* return 0, and main's exit(doublePipe(...)).
Return ==
    /\ pc["sup"] = "Reaping"
    /\ waits >= WaitCount
    /\ ExitSup("Done", 0)
    /\ UNCHANGED <<argv, mpc, i, j, cmd1, cmd2, cmd3, oob,
                   ci, made, written, nread, buffer, exitStatus, reaped,
                   waits, sigpipeIgnored, sawEOF, ioLog, badClose>>

\* ===================================================================== tee
\* The tee's first closes without close(head_to_tee[1]).
TeeCloseUnusedKeepsHeadWriteEnd == << <<"tee_to_leg1", 0>>, <<"tee_to_leg1", 0>> >>

\* close(head_to_tee[1]); close(tee_to_leg1[0]); close(tee_to_leg1[0]);
TeeCloseUnused == << <<"head_to_tee", 1>>, <<"tee_to_leg1", 0>>, <<"tee_to_leg1", 0>> >>

\* close(head_to_tee[0]); close(tee_to_leg1[1]); close(tee_to_leg1[1]);
TeeCloseRemaining == << <<"head_to_tee", 0>>, <<"tee_to_leg1", 1>>, <<"tee_to_leg1", 1>> >>

\* One close() of the tee out of the list `which`; after the last one the tee
\* moves on.
TeeCloseStep(at, which, after) ==
    /\ pc["tee"] = at
    /\ LET d == which[ci["tee"] + 1]
       IN /\ fds' = [fds EXCEPT !["tee"] = CloseIn(@, d)]
          /\ badClose' = IF d \in fds["tee"] THEN badClose
                         ELSE badClose \cup {<<"tee", d>>}
    /\ IF ci["tee"] + 1 = Len(which)
       THEN /\ pc' = [pc EXCEPT !["tee"] = after]
            /\ ci' = [ci EXCEPT !["tee"] = 0]
       ELSE /\ ci' = [ci EXCEPT !["tee"] = @ + 1]
            /\ UNCHANGED pc
    /\ UNCHANGED <<mainVars, stdin, stdout, made, written, nread, buffer,
                   exitStatus, reaped, waits, sigpipeIgnored, sawEOF, ioLog>>

TeeClose1 == TeeCloseStep("closeUnused", TeeCloseUnused, "read")

TeeClose2 == TeeCloseStep("closeRemaining", TeeCloseRemaining, "exit")

\* bytesRead = read(head_to_tee[0], buffer, sizeof(buffer)) with bytesRead > 0.
TeeRead ==
    /\ pc["tee"] = "read"
    /\ <<"head_to_tee", 0>> \in fds["tee"]
    /\ InPipe("head_to_tee") > 0
    /\ \E n \in ReadReturns(BlockSize, InPipe("head_to_tee")) :
         /\ buffer' = SubSeq(written["head_to_tee"], nread["head_to_tee"] + 1,
                             nread["head_to_tee"] + n)
         /\ nread' = [nread EXCEPT !["head_to_tee"] = @ + n]
    /\ pc' = [pc EXCEPT !["tee"] = "writeLeg1"]
    /\ ioLog' = ioLog \cup {<<"tee", "head_to_tee", "read">>}
    /\ UNCHANGED <<mainVars, fds, stdin, stdout, ci, made, written, exitStatus,
                   reaped, waits, sigpipeIgnored, sawEOF, badClose>>

\* read returned 0: every write end of head_to_tee is closed and it is drained.
TeeReadEOF ==
    /\ pc["tee"] = "read"
    /\ <<"head_to_tee", 0>> \in fds["tee"]
    /\ InPipe("head_to_tee") = 0
    /\ ~HasWriter("head_to_tee")
    /\ pc' = [pc EXCEPT !["tee"] = "closeRemaining"]
    /\ sawEOF' = sawEOF \cup {"tee"}
    /\ ioLog' = ioLog \cup {<<"tee", "head_to_tee", "read">>}
    /\ UNCHANGED <<mainVars, fds, stdin, stdout, ci, made, written, nread, buffer,
                   exitStatus, reaped, waits, sigpipeIgnored, badClose>>

\* What the tee does with the return value k of write(fd, buffer, bytesRead):
\* nothing; it goes on to the statement after the write.
AfterWrite(k, n, next) == next

\* write(tee_to_legN[1], buffer, bytesRead), the pipe having a reader and room:
\* the kernel takes k bytes.
TeeWrite(at, pn, next) ==
    /\ pc["tee"] = at
    /\ <<pn, 1>> \in fds["tee"]
    /\ HasReader(pn)
    /\ InPipe(pn) < PipeCap
    /\ \E k \in WriteAccepts(Len(buffer), PipeCap - InPipe(pn)) :
         /\ written' = [written EXCEPT ![pn] = @ \o SubSeq(buffer, 1, k)]
         /\ pc' = [pc EXCEPT !["tee"] = AfterWrite(k, Len(buffer), next)]
    /\ buffer' = IF next = "read" THEN <<>> ELSE buffer
    /\ ioLog' = ioLog \cup {<<"tee", pn, "write">>}
    /\ UNCHANGED <<mainVars, fds, stdin, stdout, ci, made, nread, exitStatus,
                   reaped, waits, sigpipeIgnored, sawEOF, badClose>>

\* The same write when no process holds a read end of the pipe: SIGPIPE
\* terminates the tee, or, with SIGPIPE ignored, write returns -1 (EPIPE) and
\* the tee goes on.
TeeWriteBroken(at, pn, next) ==
    /\ pc["tee"] = at
    /\ <<pn, 1>> \in fds["tee"]
    /\ ~HasReader(pn)
    /\ IF sigpipeIgnored
       THEN /\ pc' = [pc EXCEPT !["tee"] = next]
            /\ buffer' = IF next = "read" THEN <<>> ELSE buffer
            /\ UNCHANGED <<fds, stdin, stdout, exitStatus>>
       ELSE /\ ExitChild("tee", KilledBySigpipe)
            /\ buffer' = <<>>
    /\ ioLog' = ioLog \cup {<<"tee", pn, "write">>}
    /\ UNCHANGED <<mainVars, ci, made, written, nread,
                   reaped, waits, sigpipeIgnored, sawEOF, badClose>>

TeeWriteLeg1 ==
    \/ TeeWrite("writeLeg1", "tee_to_leg1", "writeLeg2")
    \/ TeeWriteBroken("writeLeg1", "tee_to_leg1", "writeLeg2")

TeeWriteLeg2 ==
    \/ TeeWrite("writeLeg2", "tee_to_leg2", "read")
    \/ TeeWriteBroken("writeLeg2", "tee_to_leg2", "read")

\* exit(0)
TeeExit ==
    /\ pc["tee"] = "exit"
    /\ ExitChild("tee", 0)
    /\ UNCHANGED <<mainVars, ci, made, written, nread, buffer,
                   reaped, waits, sigpipeIgnored, sawEOF, ioLog, badClose>>


\* ======================================================= external commands
\* The commands execvp started are not part of dp.c; they are modelled by what
\* a command can do with the stream dp wired: the head writes bytes to its
\* standard output and terminates when it likes; a leg reads its standard
\* input, and terminates at end-of-input or, not having read everything, early.

\* The pipe a process' descriptor 1 / descriptor 0 refers to.
OutPipe(p) == stdout[p][1]
InPipeOf(p) == stdin[p][1]

\* The head writes one more byte to its standard output.  No process looks
\* at the value of a byte, so a byte is named by its position in the head's
\* output: a byte lost, repeated or out of place shows in the sequence.
HeadWrite ==
    /\ pc["head"] = "running"
    /\ stdout["head"] \in Desc
    /\ Len(written[OutPipe("head")]) < MaxBytes
    /\ HasReader(OutPipe("head"))
    /\ InPipe(OutPipe("head")) < PipeCap
    /\ written' = [written EXCEPT ![OutPipe("head")] = Append(@, Len(@) + 1)]
    /\ ioLog' = ioLog \cup {<<"head", OutPipe("head"), "write">>}
    /\ UNCHANGED <<mainVars, pc, fds, stdin, stdout, ci, made, nread, buffer,
                   exitStatus, reaped, waits, sigpipeIgnored, sawEOF, badClose>>

\* The head writes when no process holds a read end: SIGPIPE terminates it,
\* or its write fails with EPIPE and it gives up.
HeadWriteBroken ==
    /\ pc["head"] = "running"
    /\ stdout["head"] \in Desc
    /\ Len(written[OutPipe("head")]) < MaxBytes
    /\ ~HasReader(OutPipe("head"))
    /\ ioLog' = ioLog \cup {<<"head", OutPipe("head"), "write">>}
    /\ ExitChild("head", IF sigpipeIgnored THEN EXIT_FAILURE ELSE KilledBySigpipe)
    /\ UNCHANGED <<mainVars, ci, made, written, nread, buffer,
                   reaped, waits, sigpipeIgnored, sawEOF, badClose>>

\* The head command terminates.
HeadExit ==
    /\ pc["head"] = "running"
    /\ ExitChild("head", 0)
    /\ UNCHANGED <<mainVars, ci, made, written, nread, buffer,
                   reaped, waits, sigpipeIgnored, sawEOF, ioLog, badClose>>

\* A leg reads some of the bytes waiting on its standard input.
LegRead(l) ==
    /\ pc[l] = "running"
    /\ stdin[l] \in Desc
    /\ InPipe(InPipeOf(l)) > 0
    /\ \E k \in 1 .. InPipe(InPipeOf(l)) :
         nread' = [nread EXCEPT ![InPipeOf(l)] = @ + k]
    /\ ioLog' = ioLog \cup {<<l, InPipeOf(l), "read">>}
    /\ UNCHANGED <<mainVars, pc, fds, stdin, stdout, ci, made, written, buffer,
                   exitStatus, reaped, waits, sigpipeIgnored, sawEOF, badClose>>

\* A leg's read returns 0 and the leg terminates normally.
LegEOF(l) ==
    /\ pc[l] = "running"
    /\ stdin[l] \in Desc
    /\ InPipe(InPipeOf(l)) = 0
    /\ ~HasWriter(InPipeOf(l))
    /\ sawEOF' = sawEOF \cup {l}
    /\ ioLog' = ioLog \cup {<<l, InPipeOf(l), "read">>}
    /\ ExitChild(l, 0)
    /\ UNCHANGED <<mainVars, ci, made, written, nread, buffer,
                   reaped, waits, sigpipeIgnored, badClose>>

\* A leg command terminates without having read its input to the end.
LegQuit(l) ==
    /\ pc[l] = "running"
    /\ ExitChild(l, EXIT_FAILURE)
    /\ UNCHANGED <<mainVars, ci, made, written, nread, buffer,
                   reaped, waits, sigpipeIgnored, sawEOF, ioLog, badClose>>

\* What a leg has received on its standard input so far.
Delivered(l) == SubSeq(written[FdToDup(l)[1]], 1, nread[FdToDup(l)[1]])

\* ============================================================ specification
\* A well-formed command line, as main() leaves it when it calls doublePipe.
ParsedOk ==
    /\ argv = <<"w", ":", "w", ":", "w">>
    /\ mpc = "doublePipe"
    /\ i = 6
    /\ j = 1
    /\ cmd1 = <<"w", "NULL">>
    /\ cmd2 = <<"w", "NULL">>
    /\ cmd3 = <<"w", "NULL">>
    /\ oob = {}
    /\ exitCode = NotExited

ProcInit ==
    /\ pc = [p \in Procs |-> IF p = "sup" THEN "Idle" ELSE "none"]
    /\ fds = [p \in Procs |-> {}]
    /\ stdin = [p \in Procs |-> IF p = "sup" THEN Inherited ELSE Closed]
    /\ stdout = [p \in Procs |-> IF p = "sup" THEN Inherited ELSE Closed]
    /\ ci = [p \in Procs |-> 0]
    /\ made = {}
    /\ written = [pn \in PipeNames |-> <<>>]
    /\ nread = [pn \in PipeNames |-> 0]
    /\ buffer = <<>>
    /\ exitStatus = [c \in Children |-> NotExited]
    /\ reaped = {}
    /\ waits = 0
    /\ sawEOF = {}
    /\ ioLog = {}
    /\ badClose = {}

Init ==
    /\ ParsedOk
    /\ ProcInit
    /\ sigpipeIgnored \in BOOLEAN

SupNext ==
    \/ CreatePipes
    \/ SpawnHead
    \/ SpawnTee
    \/ SpawnLeg1
    \/ SpawnLeg2
    \/ Cleanup
    \/ Wait
    \/ Return

LaunchNext(p) ==
    \/ ChildDup2Ok(p)
    \/ ChildDup2Fail(p)
    \/ ChildClosePipes(p)
    \/ ChildExecOk(p)
    \/ ChildExecFail(p)

TeeNext ==
    \/ TeeClose1
    \/ TeeRead
    \/ TeeReadEOF
    \/ TeeWriteLeg1
    \/ TeeWriteLeg2
    \/ TeeClose2
    \/ TeeExit

HeadNext ==
    \/ HeadWrite
    \/ HeadWriteBroken
    \/ HeadExit

LegNext(l) ==
    \/ LegRead(l)
    \/ LegEOF(l)
    \/ LegQuit(l)

Next ==
    \/ SupNext
    \/ \E p \in Launched : LaunchNext(p)
    \/ TeeNext
    \/ HeadNext
    \/ \E l \in Legs : LegNext(l)

Spec == Init /\ [][Next]_vars

\* The scheduler runs every process that can take a step: the supervisor, the
\* tee, each launched child up to its exec, and a leg's reads.  Nothing makes
\* the head command terminate or a leg quit early.
FairSpec ==
    /\ Spec
    /\ WF_vars(SupNext)
    /\ WF_vars(TeeNext)
    /\ \A p \in Launched : WF_vars(LaunchNext(p))
    /\ \A l \in Legs : WF_vars(LegRead(l) \/ LegEOF(l))


\* ------------------------------------------------------------ main() alone
\* Every argument list of at most MaxArgs arguments.
ArgLists == UNION {[1 .. n -> Tokens] : n \in 0 .. MaxArgs}

ParseInit ==
    /\ argv \in ArgLists
    /\ mpc = "start"
    /\ i = 0
    /\ j = 0
    /\ cmd1 = <<>>
    /\ cmd2 = <<>>
    /\ cmd3 = <<>>
    /\ oob = {}
    /\ exitCode = NotExited
    /\ ProcInit
    /\ sigpipeIgnored = FALSE

\* main(), and the first steps of doublePipe() that a call of it leads to.
ParseNext ==
    \/ MainStart
    \/ \E k \in 1 .. 3 : MainLoop(k)
    \/ \E k \in 1 .. 2 : MainEnd(k)
    \/ MainEnd3
    \/ CreatePipes
    \/ SpawnHead

ParseSpec == ParseInit /\ [][ParseNext]_vars


\* ================================================================== claims
HeadToTee == "head_to_tee"
AllExited == \A c \in Children : pc[c] = "exited"
AllCreated == \A c \in Children : pc[c] # "none"
SpawnStates == {"PipesCreated", "HeadSpawned", "RelaySpawned", "Leg1Spawned"}

\* C1: fan-out equality.  Once the head, the tee and both legs have
\* terminated, the legs having read their input to its end, what each leg
\* received on its standard input is exactly the sequence B the head wrote.
C1_FanOutEquality ==
    (AllExited /\ Legs \subseteq sawEOF)
        => \A l \in Legs : Delivered(l) = written[HeadToTee]

\* C2: end-of-stream propagation.  Once the head has terminated, unless the
\* supervisor aborted on a failed fork or a leg ended without reading its input
\* to the end, the tee reads end-of-stream and terminates, and both legs read
\* end-of-stream and terminate.
C2_EofPropagates ==
    (pc["head"] = "exited")
        ~> \/ pc["sup"] = "Failed"
           \/ \E l \in Legs : pc[l] = "exited" /\ l \notin sawEOF
           \/ /\ {"tee", "leg1", "leg2"} \subseteq sawEOF
              /\ AllExited

\* C2 witness: a run with data where the tee and both legs saw end-of-stream.
C2_Witness ==
    /\ AllExited
    /\ {"tee", "leg1", "leg2"} \subseteq sawEOF
    /\ Len(written[HeadToTee]) > BlockSize

\* C3: reaping completeness.  A supervisor that reaches Done has created
\* exactly the four children, has waited four times, each wait collecting a
\* different child, and leaves no terminated child uncollected.
C3_ReapingComplete ==
    pc["sup"] = "Done"
        => /\ AllCreated
           /\ waits = NumChildren
           /\ reaped = Children
           /\ Zombies = {}
           /\ Running = {}

C3_Witness ==
    /\ pc["sup"] = "Done"
    /\ reaped = Children

C5_BlocksFullyDrained ==
    pc["tee"] = "read"
        => /\ written["tee_to_leg1"] = SubSeq(written[HeadToTee], 1, nread[HeadToTee])
           /\ written["tee_to_leg2"] = SubSeq(written[HeadToTee], 1, nread[HeadToTee])

\* The argument lists C6 calls malformed: no argument, no ':' token, only one
\* ':' token, or a ':' as the last argument.
NumSeparators == Cardinality({k \in 1 .. Len(argv) : argv[k] = ":"})
Malformed ==
    \/ Len(argv) = 0
    \/ NumSeparators <= 1
    \/ argv[Len(argv)] = ":"

\* C6: malformed invocation.  For a malformed argument list dp exits with
\* status 1, never enters doublePipe, creates no pipe and spawns no process.
C6_MalformedRejected ==
    Malformed
        => /\ mpc \notin {"doublePipe", "crashed"}
           /\ exitCode \in {NotExited, 1}
           /\ made = {}
           /\ \A c \in Children : pc[c] = "none"

\* C7: aggregate exit status.  The supervisor returns only after its fourth
\* wait, and then returns 0 whatever the children's statuses are.
C7_ReturnsZero ==
    /\ pc["sup"] = "Done" => exitCode = 0 /\ waits = NumChildren
    /\ exitCode = 0 => pc["sup"] = "Done"

C7_Witness ==
    /\ pc["sup"] = "Done"
    /\ exitCode = 0
    /\ \E c \in Children : exitStatus[c] = EXIT_FAILURE
    /\ \E c \in Children : exitStatus[c] = KilledBySigpipe

\* What a step leaves of everything outside child p.
OthersUnchanged(p) ==
    /\ \A q \in Procs \ {p} :
         /\ pc'[q] = pc[q]
         /\ fds'[q] = fds[q]
         /\ stdin'[q] = stdin[q]
         /\ stdout'[q] = stdout[q]
         /\ ci'[q] = ci[q]
    /\ \A q \in Children \ {p} : exitStatus'[q] = exitStatus[q]
    /\ UNCHANGED <<written, nread, buffer, reaped, waits, exitCode, made>>

\* C8: child failure isolation.  A launched child whose dup2 or execvp fails
\* terminates there with a non-zero status, the step changing nothing of the
\* supervisor or of the other children; a launched child is never anywhere but
\* in the launcher's child branch or in its command; and a supervisor that
\* reaches Done has reaped every child, the failed ones included.
C8_ChildFailureIsolated ==
    /\ [][\A p \in Launched :
            (pc[p] \in {"dup2", "exec"} /\ pc'[p] \notin {"closePipes", "exec", "running"}
                 /\ pc'[p] # pc[p])
              => /\ pc'[p] = "exited"
                 /\ exitStatus'[p] # 0
                 /\ exitStatus'[p] # NotExited
                 /\ OthersUnchanged(p)]_vars
    /\ [](\A p \in Launched :
            pc[p] \in {"none", "dup2", "closePipes", "exec", "running", "exited"})
    /\ [](pc["sup"] = "Done"
            => \A p \in Launched : exitStatus[p] = EXIT_FAILURE => p \in reaped)

\* C8 witness: the head's launch failed (with SIGPIPE at its default a head
\* ends with EXIT_FAILURE only there), the others ran to end-of-stream and the
\* supervisor reaped all four.
C8_Witness ==
    /\ ~sigpipeIgnored
    /\ exitStatus["head"] = EXIT_FAILURE
    /\ {"tee", "leg1", "leg2"} \subseteq sawEOF
    /\ pc["sup"] = "Done"
    /\ "head" \in reaped

\* C9: pipe allocation failure.  The supervisor is at a spawn step, and a
\* child exists, only with all three pipes created; with fewer it has
\* terminated with failure status.
C9_PipeFailureAborts ==
    /\ pc["sup"] \in SpawnStates => made = PipeNames /\ fds["sup"] = Desc
    /\ made # PipeNames /\ pc["sup"] # "Idle"
         => /\ pc["sup"] = "Failed"
            /\ exitCode = EXIT_FAILURE
            /\ \A c \in Children : pc[c] = "none"
    /\ (\E c \in Children : pc[c] # "none") => made = PipeNames

C9_Witness ==
    /\ pc["sup"] = "Failed"
    /\ Cardinality(made) = 2

\* C10: process-duplication failure.  A supervisor that has failed has
\* terminated with failure status without closing a pipe in cleanup and
\* without waiting; from then on it takes no step and no further child
\* appears; and Done is reached only with all four children created.
C10_ForkFailureAborts ==
    /\ [](pc["sup"] = "Failed"
            => /\ exitCode = EXIT_FAILURE
               /\ ci["sup"] = 0
               /\ waits = 0
               /\ reaped = {}
               /\ ~AllCreated)
    /\ [](pc["sup"] = "Done" => AllCreated)
    /\ [][pc["sup"] = "Failed"
            => /\ pc'["sup"] = "Failed"
               /\ \A c \in Children : pc[c] = "none" => pc'[c] = "none"]_vars

\* C10 witness: the fork of leg1 failed after head and tee were created.
C10_Witness ==
    /\ pc["sup"] = "Failed"
    /\ made = PipeNames
    /\ pc["head"] # "none"
    /\ pc["tee"] # "none"
    /\ pc["leg1"] = "none"
    /\ pc["leg2"] = "none"


\* The stream and the pipe endpoint each launched child is to be wired to.
WiredStream(p) == IF p = "head" THEN stdout[p] ELSE stdin[p]
OtherStream(p) == IF p = "head" THEN stdin[p] ELSE stdout[p]
WiredEnd(p) ==
    CASE p = "head" -> <<"head_to_tee", 1>>
      [] p = "leg1" -> <<"tee_to_leg1", 0>>
      [] p = "leg2" -> <<"tee_to_leg2", 0>>

\* C11: launched-child wiring.  A launched child binds before it closes
\* anything (at dup2 all six descriptors are still open); from the bind on its
\* target stream is the endpoint it was given; and when it replaces its image,
\* and in the command after that, all six listed descriptors are closed, no
\* close having failed, so the bound stream is its only reference to a pipe.
C11_ChildWiring ==
    \A p \in Launched :
      /\ pc[p] = "dup2" => fds[p] = Desc
      /\ pc[p] \in {"closePipes", "exec", "running"}
           => /\ WiredStream(p) = WiredEnd(p)
              /\ OtherStream(p) \notin Desc
      /\ pc[p] \in {"exec", "running"} => fds[p] = {}
      /\ \A d \in Desc : <<p, d>> \notin badClose

C11_Witness ==
    /\ \A p \in Launched : pc[p] = "running"
    /\ Holders(<<"tee_to_leg2", 0>>) \ {"tee"} = {"leg2"}

\* The supervisor's steps in order; Failed is where a failed pipe() or fork() ends.
SupOrder == <<"Idle", "PipesCreated", "HeadSpawned", "RelaySpawned", "Leg1Spawned",
              "Cleanup", "Reaping", "Done">>
SupIndex(label) == CHOOSE k \in 1 .. Len(SupOrder) : SupOrder[k] = label

\* C12: supervisor sequencing.  Every change of the supervisor's position is
\* to the next step of the order (or, from pipe creation or a spawn step, to
\* the abort); each spawn step creates exactly its child; the supervisor has
\* all six endpoints open until both legs are spawned; and it has none open
\* when it waits.
C12_SupervisorSequence ==
    /\ [][pc'["sup"] # pc["sup"]
            => \/ /\ pc'["sup"] = "Failed"
                  /\ SupIndex(pc["sup"]) <= 5
               \/ /\ pc'["sup"] # "Failed"
                  /\ SupIndex(pc'["sup"]) = SupIndex(pc["sup"]) + 1]_vars
    /\ [](pc["sup"] \notin {"Idle", "Failed"}
            => /\ pc["head"] # "none" <=> SupIndex(pc["sup"]) >= 3
               /\ pc["tee"] # "none" <=> SupIndex(pc["sup"]) >= 4
               /\ pc["leg1"] # "none" <=> SupIndex(pc["sup"]) >= 5
               /\ pc["leg2"] # "none" <=> SupIndex(pc["sup"]) >= 6)
    /\ [](pc["sup"] \in SpawnStates \/ (pc["sup"] = "Cleanup" /\ ci["sup"] = 0)
            => fds["sup"] = Desc)
    /\ [](pc["sup"] = "Reaping" \/ waits > 0 => fds["sup"] = {} /\ AllCreated)

C12_Witness ==
    /\ pc["sup"] = "Done"
    /\ waits = NumChildren
    /\ fds["sup"] = {}

\* The endpoints the relay's role uses.
RelayEnds == {<<"head_to_tee", 0>>, <<"tee_to_leg1", 1>>, <<"tee_to_leg2", 1>>}

\* C13: relay endpoint set.  From the end of its creation-time closes and
\* throughout its read/write loop the tee holds open exactly the read end of
\* head_to_tee and the write ends of tee_to_leg1 and tee_to_leg2.
C13_RelayEndpointSet ==
    pc["tee"] \in {"read", "writeLeg1", "writeLeg2"} => fds["tee"] = RelayEnds

\* C14: no double close.  No process ever calls close on a descriptor that is
\* not open in it at that moment.
C14_NoDoubleClose == badClose = {}

IsPrefix(s, t) == Len(s) <= Len(t) /\ s = SubSeq(t, 1, Len(s))

\* C15: stream-prefix invariant.  What has been written into tee_to_leg1 and
\* what has been written into tee_to_leg2 are each a prefix of what the head
\* has written.
C15_StreamPrefix ==
    /\ IsPrefix(written["tee_to_leg1"], written[HeadToTee])
    /\ IsPrefix(written["tee_to_leg2"], written[HeadToTee])

\* C16: relay loop step.  A read gives the tee a block of 1..BlockSize bytes;
\* the step that takes the tee from the write to leg1 to the write to leg2 puts
\* exactly that block into tee_to_leg1 and nothing anywhere else; the step that
\* takes it from the write to leg2 back to the read puts exactly that block
\* into tee_to_leg2; the tee goes round in that order only; and once it has
\* read end-of-stream it writes nothing more and terminates with status 0.
C16_RelayLoopStep ==
    /\ [][/\ (pc["tee"] = "read" /\ pc'["tee"] # "read")
               => \/ /\ pc'["tee"] = "writeLeg1"
                     /\ Len(buffer') \in 1 .. BlockSize
                     /\ written' = written
                  \/ /\ pc'["tee"] = "closeRemaining"
                     /\ "tee" \in sawEOF'
          /\ (pc["tee"] = "writeLeg1" /\ pc'["tee"] \notin {"writeLeg1", "exited"})
               => /\ pc'["tee"] = "writeLeg2"
                  /\ written' = [written EXCEPT !["tee_to_leg1"] = @ \o buffer]
                  /\ buffer' = buffer
          /\ (pc["tee"] = "writeLeg2" /\ pc'["tee"] \notin {"writeLeg2", "exited"})
               => /\ pc'["tee"] = "read"
                  /\ written' = [written EXCEPT !["tee_to_leg2"] = @ \o buffer]
          /\ "tee" \in sawEOF
               => /\ written'["tee_to_leg1"] = written["tee_to_leg1"]
                  /\ written'["tee_to_leg2"] = written["tee_to_leg2"]]_vars
    /\ []("tee" \in sawEOF /\ pc["tee"] = "exited" => exitStatus["tee"] = 0)

\* The writes the design allots: the head to head_to_tee, the tee to each leg's pipe.
AllottedWrites == {<<"head", "head_to_tee", "write">>,
                   <<"tee", "tee_to_leg1", "write">>,
                   <<"tee", "tee_to_leg2", "write">>}

\* C17: single writer per channel.  Every write ever issued on head_to_tee is
\* the head's and every write ever issued on tee_to_leg1 or tee_to_leg2 is the
\* tee's, and a command dp started has no pipe on its standard output but the
\* head, which has the write end of head_to_tee.
C17_SingleWriter ==
    /\ \A e \in ioLog : e[3] = "write" => e \in AllottedWrites
    /\ \A p \in Launched :
         pc[p] = "running" /\ stdout[p] \in Desc
            => p = "head" /\ stdout[p] = <<"head_to_tee", 1>>

C17_Witness == AllottedWrites \subseteq ioLog

\* C18: no hang when a leg quits early.  With all four children created and
\* the head terminated, a leg having terminated without reading end-of-stream
\* leads, unless the other leg ends that way too, to the supervisor reaching
\* Done with every child terminated.
C18_NoHangOnEarlyQuit ==
    (/\ AllCreated
     /\ pc["head"] = "exited"
     /\ \E l \in Legs : pc[l] = "exited" /\ l \notin sawEOF)
        ~> \/ pc["sup"] = "Done" /\ AllExited
           \/ \A l \in Legs : pc[l] = "exited" /\ l \notin sawEOF

\* C19: bounded lag.  The tee has never written more bytes to tee_to_leg2 than
\* to tee_to_leg1, the difference is at most one block, and when the tee is
\* about to read the two are level.
C19_BoundedLag ==
    /\ Len(written["tee_to_leg2"]) <= Len(written["tee_to_leg1"])
    /\ Len(written["tee_to_leg1"]) - Len(written["tee_to_leg2"]) <= BlockSize
    /\ pc["tee"] = "read"
         => Len(written["tee_to_leg1"]) = Len(written["tee_to_leg2"])

\* C20: argument-vector bounds.  main() writes no slot of cmd1, cmd2 or cmd3
\* outside 0..CmdCap-1.
C20_ArgVectorBounds == oob = {}

=============================================================================
